---- MODULE Spec2Model ----
(***************************************************************************)
(* A model of astroNN/models/NeuralNetMaster.py: the NeuralNetMaster base  *)
(* class.  One object of the class is modelled: its fields, the file       *)
(* system and working directory it acts on, and a record of what the most  *)
(* recent call did (its arguments, its outcome, the external calls it made *)
(* in order).                                                              *)
(*                                                                         *)
(* Python values are records [kind, v]: None, an int, a float given in     *)
(* tenths, a tuple, and an ndarray given by its shape.                     *)
(***************************************************************************)
EXTENDS Integers, Sequences, FiniteSets, TLC

VARIABLES
    val_size,            \* self.val_size
    val_num,             \* self.val_num
    num_train,           \* self.num_train
    input_shape,         \* self.input_shape
    labels_shape,        \* self.labels_shape
    folder_name,         \* self.folder_name
    fullfilepath,        \* self.fullfilepath
    virtual_cvslogger,   \* self.virtual_cvslogger: "None" or "logger"
    input_mean_norm,     \* self.input_mean_norm: "None" or "array"
    input_std_norm,      \* self.input_std_norm: "None" or "array"
    keras_model,         \* self.keras_model
    keras_model_predict, \* self.keras_model_predict
    cwd,                 \* the process's working directory
    dirs,                \* the directories of the file system
    files,               \* the files of the file system
    last,                \* the most recent call: arguments, outcome, events
    runnum_calls,        \* history: how often folder_runnum has been called
    last_name,           \* history: the most recent non-None name given to save
    auto_name,           \* history: the name folder_runnum returned, if any
    first                \* history: per name, the fields after the first save(name)

vars == <<val_size, val_num, num_train, input_shape, labels_shape, folder_name,
          fullfilepath, virtual_cvslogger, input_mean_norm, input_std_norm,
          keras_model, keras_model_predict, cwd, dirs, files, last,
          runnum_calls, last_name, auto_name, first>>

preVars == <<val_size, val_num, num_train, input_shape, labels_shape>>
saveVars == <<folder_name, fullfilepath, virtual_cvslogger, cwd, dirs, files,
              runnum_calls, last_name, auto_name, first>>
jacVars == <<input_mean_norm, input_std_norm, keras_model, keras_model_predict>>

----------------------------------------------------------------------------
(* Bounds of the model. *)

\* the largest number of samples (first dimension) of an array
MaxN == 2
\* the largest rank of an array given to a method
MaxRank == 5

----------------------------------------------------------------------------
(* Python values. *)

NoneV == [kind |-> "None", v |-> <<>>]
IntV(n) == [kind |-> "int", v |-> <<n>>]
FloatV(tenths) == [kind |-> "float", v |-> <<tenths>>]
TupleV(s) == [kind |-> "tuple", v |-> s]

\* An ndarray is its shape; ndim is the length of the shape.
ndim(a) == Len(a)

\* The dimensions after the first one of the arrays drawn as inputs: all
\* different, so that taking the wrong dimension shows.
TailDims == <<2, 3, 4, 5, 6, 7, 8>>

Arrays ==
    { <<>> } \cup
    { <<n>> \o SubSeq(TailDims, 1, r - 1) : n \in 1..MaxN, r \in 1..MaxRank }

\* the labels given with input_data: one row per sample, or a 0-d array
LabelsFor(input_data) ==
    { l \in Arrays : l = <<>> \/ l[1] = (IF input_data = <<>> THEN 1 ELSE input_data[1]) }

\* val_size as the caller sets it: None, or a float in tenths (-0.5 .. 1.5).
ValSizes == { NoneV } \cup { FloatV(t) : t \in {-5, 1, 5, 15} }

----------------------------------------------------------------------------
(* pre_training_checklist_master *)

\* int(): truncation toward zero of the rational a / b, b > 0
TruncDiv(a, b) == IF a >= 0 THEN a \div b ELSE -((-a) \div b)

\* int(input_data.shape[0] * self.val_size).  For the sample counts and the
\* tenths drawn here the float product truncates as the exact product does.
ValNum(n, vs) ==
    IF vs.kind = "int" THEN n * vs.v[1] ELSE TruncDiv(n * vs.v[1], 10)

NumTrainRounded(n, vn, vs) ==
    IF vs.kind = "int" THEN n - n * vs.v[1] ELSE TruncDiv(n * (10 - vs.v[1]), 10)

\* input_data.shape[0] - self.val_num
NumTrain(n, vn, vs) == n - vn

InferInputShapeNoChannel(input_data, old) ==
    CASE ndim(input_data) = 2 -> TupleV(<<input_data[2], 1>>)
      [] ndim(input_data) = 3 -> TupleV(<<input_data[2], input_data[3]>>)
      [] ndim(input_data) = 4 -> TupleV(<<input_data[2], input_data[3], input_data[4]>>)
      [] OTHER -> old

InferInputShapeReset(input_data, old) ==
    CASE ndim(input_data) = 2 -> TupleV(<<input_data[2], 1>>)
      [] ndim(input_data) = 3 -> TupleV(<<input_data[2], input_data[3], 1>>)
      [] ndim(input_data) = 4 -> TupleV(<<input_data[2], input_data[3], input_data[4]>>)
      [] OTHER -> NoneV

\* the if / elif chain on input_data.ndim; no else: the field keeps its value
InferInputShape(input_data, old) ==
    CASE ndim(input_data) = 2 -> TupleV(<<input_data[2], 1>>)
      [] ndim(input_data) = 3 -> TupleV(<<input_data[2], input_data[3], 1>>)
      [] ndim(input_data) = 4 -> TupleV(<<input_data[2], input_data[3], input_data[4]>>)
      [] OTHER -> old

\* the if / elif chain on labels.ndim; no else: the field keeps its value
InferLabelsShape(labels, old) ==
    CASE ndim(labels) = 1 -> IntV(1)
      [] ndim(labels) = 2 -> IntV(labels[2])
      [] ndim(labels) = 3 -> TupleV(<<labels[2], labels[3]>>)
      [] ndim(labels) = 4 -> TupleV(<<labels[2], labels[3], labels[4]>>)
      [] OTHER -> old

\* the fields cpu_gpu_check reads keep their values of construction
fallback_cpu == FALSE
limit_gpu_mem == TRUE

\* cpu_gpu_check: the external calls it makes, in order
cpu_gpu_check ==
    (IF fallback_cpu THEN <<"cpu_fallback">> ELSE <<>>) \o
    (IF limit_gpu_mem THEN <<"gpu_memory_manage">> ELSE <<>>)

\* the caller assigns self.val_size
SetValSize(v) ==
    /\ val_size' = v
    /\ last' = [op |-> "set_val_size"]
    /\ UNCHANGED <<val_num, num_train, input_shape, labels_shape>>
    /\ UNCHANGED saveVars
    /\ UNCHANGED jacVars

pre_training_checklist_master(input_data, labels) ==
    LET vs == IF val_size = NoneV THEN IntV(0) ELSE val_size
    IN  /\ val_size' = vs
        /\ IF ndim(input_data) = 0
           THEN \* input_data.shape[0] of a 0-d array: IndexError
                /\ UNCHANGED <<val_num, num_train, input_shape, labels_shape>>
                /\ last' = [op |-> "pre_training", outcome |-> "IndexError",
                            input_data |-> input_data, labels |-> labels,
                            events |-> <<>>]
           ELSE LET vn == ValNum(input_data[1], vs)
                IN  /\ val_num' = IntV(vn)
                    /\ num_train' = IntV(NumTrain(input_data[1], vn, vs))
                    /\ input_shape' = InferInputShape(input_data, input_shape)
                    /\ labels_shape' = InferLabelsShape(labels, labels_shape)
                    /\ last' = [op |-> "pre_training", outcome |-> "returned",
                                input_data |-> input_data, labels |-> labels,
                                events |-> cpu_gpu_check \o <<"print">>]
        /\ UNCHANGED saveVars
        /\ UNCHANGED jacVars

----------------------------------------------------------------------------
(* Path strings and the file system.                                       *)
(* A path string is [kind, abs, parts]: parts are its components between   *)
(* separators, each component a sequence of the tokens concatenated into   *)
(* it; a trailing separator is a trailing empty component.  The file       *)
(* system holds resolved paths: sequences of non-empty components from the *)
(* root.                                                                   *)

NoneP == [kind |-> "None", abs |-> FALSE, parts |-> <<>>]
Str(abs, parts) == [kind |-> "str", abs |-> abs, parts |-> parts]

\* s + '/'
AddSlash(s) == [s EXCEPT !.parts = Append(s.parts, <<>>)]

\* s + tok, for a token without separator
AddStr(s, tok) ==
    LET n == Len(s.parts)
    IN  IF n = 0 THEN [s EXCEPT !.parts = << <<tok>> >>]
        ELSE [s EXCEPT !.parts = [s.parts EXCEPT ![n] = s.parts[n] \o <<tok>>]]

NonEmpty(c) == c # <<>>

\* os.path.join(a, b): b alone when absolute, else a, one separator, b
Join(a, b) ==
    IF b.abs THEN b
    ELSE LET n == Len(a.parts)
             head == IF n > 0 /\ a.parts[n] = <<>> THEN SubSeq(a.parts, 1, n - 1)
                     ELSE a.parts
         IN  Str(a.abs, head \o b.parts)

\* the file-system path a path string names, relative ones against cwd
Resolve(p) ==
    LET comps == SelectSeq(p.parts, NonEmpty)
    IN  IF p.abs THEN comps ELSE cwd \o comps

Parent(q) == SubSeq(q, 1, Len(q) - 1)
Prefixes(q) == { SubSeq(q, 1, k) : k \in 1..Len(q) }

\* os.path.exists(p) on directories d and files f
Exists(d, f, p) == Resolve(p) \in d \cup f

\* os.makedirs(p) on directories d: the path and every missing ancestor
Makedirs(d, p) == d \cup Prefixes(Resolve(p))

\* open(p, 'w') succeeds when the parent directory exists (else
\* FileNotFoundError) and p is no directory
CanOpen(d, p) ==
    /\ Resolve(p) \notin d
    /\ Len(Resolve(p)) > 0
    /\ (Parent(Resolve(p)) = <<>> \/ Parent(Resolve(p)) \in d)

HomeDir == << <<"home">> >>
WorkDir == << <<"work">> >>

\* self.currentdir = os.getcwd() at construction
currentdir == Str(TRUE, HomeDir)

\* the run names given to save: a relative one, and an absolute one whose
\* parent directory does not exist yet
Names == { Str(FALSE, << <<"runA">> >>),
           Str(TRUE, << <<"srv">>, <<"runC">> >>) }

\* folder_runnum (astroNN.shared.nn_tools): the numbered run folders
RunNames == << "astroNN_run001", "astroNN_run002", "astroNN_run003",
               "astroNN_run004" >>
RunStr(k) == Str(FALSE, << <<RunNames[k]>> >>)

\* folder_runnum: the first run number whose folder does not exist yet
\* (relative to the working directory); the folder is created and its
\* name returned
folder_runnum(d, f) ==
    LET k == CHOOSE i \in 1..Len(RunNames) :
                 /\ ~Exists(d, f, RunStr(i))
                 /\ \A j \in 1..(i - 1) : Exists(d, f, RunStr(j))
    IN  [name |-> RunStr(k), dirs |-> Makedirs(d, RunStr(k))]

----------------------------------------------------------------------------
(* plot_model and save *)

\* what keras.utils.plot_model may do: draw, or raise
RenderOutcomes == { "ok", "ImportError", "OSError" }

ExceptCatchesImportErrorOnly(e) == e = "ImportError"

\* except Exception: every exception plot_model raises is caught
ExceptCatches(e) == e \in { "ImportError", "OSError" }

\* plot_model with self.fullfilepath = ffp on files f: the files after it,
\* the events, and the exception that leaves it ("none" when it returns)
PlotModel(ffp, f, render) ==
    LET to_file == IF ffp # NoneP THEN AddStr(ffp, "model.png")
                   ELSE Str(FALSE, << <<"model.png">> >>)
    IN  IF render = "ok"
        THEN [files |-> f \cup { Resolve(to_file) },
              events |-> <<"plot_model">>, raised |-> "none"]
        ELSE IF ExceptCatches(render)
        THEN [files |-> f, events |-> <<"plot_model", "warn">>, raised |-> "none"]
        ELSE [files |-> f, events |-> <<"plot_model">>, raised |-> render]

\* self.plot_model() called on its own
plot_model(render) ==
    LET r == PlotModel(fullfilepath, files, render)
    IN  /\ files' = r.files
        /\ last' = [op |-> "plot_model",
                    outcome |-> IF r.raised = "none" THEN "returned" ELSE r.raised,
                    render |-> render, events |-> r.events]
        /\ UNCHANGED <<folder_name, fullfilepath, virtual_cvslogger, cwd, dirs,
                       runnum_calls, last_name, auto_name, first>>
        /\ UNCHANGED preVars
        /\ UNCHANGED jacVars

AutoFolderIgnoringField(fn, name) == name = NoneP

\* self.folder_name is None and name is None
AutoFolder(fn, name) == fn = NoneP /\ name = NoneP

NeedMakedirsAlways(d, f, p) == TRUE

\* not os.path.exists(os.path.join(self.currentdir, self.folder_name))
NeedMakedirs(d, f, p) == ~Exists(d, f, p)

FullFilePathNoSlash(fn) == Join(currentdir, fn)

\* os.path.join(self.currentdir, self.folder_name + '/')
FullFilePath(fn) == Join(currentdir, AddSlash(fn))

\* the environment: the process changes its working directory
Chdir(d) ==
    /\ cwd' = d
    /\ cwd # d
    /\ last' = [op |-> "chdir"]
    /\ UNCHANGED <<folder_name, fullfilepath, virtual_cvslogger, dirs, files,
                   runnum_calls, last_name, auto_name, first>>
    /\ UNCHANGED preVars
    /\ UNCHANGED jacVars

\* the subclass's train assigns self.virtual_cvslogger
SetVirtualCvsLogger(v) ==
    /\ virtual_cvslogger' = v
    /\ virtual_cvslogger # v
    /\ last' = [op |-> "set_logger"]
    /\ UNCHANGED <<folder_name, fullfilepath, cwd, dirs, files,
                   runnum_calls, last_name, auto_name, first>>
    /\ UNCHANGED preVars
    /\ UNCHANGED jacVars

save(name, model_plot, render) ==
    LET auto == AutoFolder(folder_name, name)
        gen == folder_runnum(dirs, files)
        fn == IF auto THEN gen.name
              ELSE IF name # NoneP THEN name ELSE folder_name
        target == Join(currentdir, fn)
        mk == ~auto /\ NeedMakedirs(dirs, files, target)
        \* os.makedirs of an existing directory raises FileExistsError
        mkRaises == mk /\ Exists(dirs, files, target)
        dirs1 == IF auto THEN gen.dirs
                 ELSE IF mk /\ ~mkRaises THEN Makedirs(dirs, target)
                 ELSE dirs
        ffp == FullFilePath(fn)
        hyper == AddStr(ffp, "hyperparameter.txt")
        openOk == CanOpen(dirs1, hyper)
        files1 == files \cup { Resolve(hyper) }
        pm == IF model_plot THEN PlotModel(ffp, files1, render)
              ELSE [files |-> files1, events |-> <<>>, raised |-> "none"]
        ev0 == (IF auto THEN <<"folder_runnum">> ELSE <<>>) \o
               (IF mk THEN <<"makedirs">> ELSE <<>>)
        rec == [op |-> "save", name |-> name, model_plot |-> model_plot,
                pre_folder_name |-> folder_name,
                ran_runnum |-> auto,
                repeat |-> (name # NoneP /\ first[name].seen),
                created |-> dirs1 \ dirs,
                dir_at_open |-> FALSE, render |-> "none",
                savefile_arg |-> NoneP,
                outcome |-> "returned", events |-> ev0]
    IN  /\ folder_name' = fn
        /\ runnum_calls' = IF auto THEN runnum_calls + 1 ELSE runnum_calls
        /\ auto_name' = IF auto THEN gen.name ELSE auto_name
        /\ last_name' = IF name # NoneP THEN name ELSE last_name
        /\ dirs' = dirs1
        /\ UNCHANGED <<virtual_cvslogger, cwd>>
        /\ UNCHANGED preVars
        /\ UNCHANGED jacVars
        /\ first' = IF name # NoneP /\ ~first[name].seen
                    THEN [first EXCEPT ![name] =
                             [seen |-> TRUE, folder_name |-> fn,
                              fullfilepath |-> IF mkRaises THEN fullfilepath ELSE ffp]]
                    ELSE first
        /\ IF mkRaises
           THEN /\ UNCHANGED <<fullfilepath, files>>
                /\ last' = [rec EXCEPT !.outcome = "FileExistsError"]
           ELSE /\ fullfilepath' = ffp
                /\ IF ~openOk
                   THEN /\ UNCHANGED files
                        /\ last' = [rec EXCEPT !.outcome = "FileNotFoundError",
                                               !.events = ev0 \o <<"open">>]
                   ELSE /\ files' = pm.files
                        /\ last' =
                             [rec EXCEPT
                                !.dir_at_open = (Parent(Resolve(hyper)) \in dirs1),
                                !.render = IF model_plot THEN render ELSE "none",
                                !.outcome = IF pm.raised = "none" THEN "returned"
                                            ELSE pm.raised,
                                !.savefile_arg =
                                    IF pm.raised = "none" /\ virtual_cvslogger # "None"
                                    THEN fn ELSE NoneP,
                                !.events =
                                    ev0 \o <<"open", "write", "close">> \o pm.events \o
                                    (IF pm.raised # "none" THEN <<>>
                                     ELSE <<"post_training_checklist_child">> \o
                                          (IF virtual_cvslogger # "None"
                                           THEN <<"savefile">> ELSE <<>>))]

----------------------------------------------------------------------------
(* jacobian *)

ArrV(shape) == [kind |-> "ndarray", v |-> shape]

\* a keras model, by the length of the input_shape of its layer "input"
ModelV(len) == [kind |-> "model", v |-> <<len>>]

XValues == { NoneV } \cup { ArrV(a) : a \in Arrays }
ExpectationLengths == 2..MaxRank

XMissingNever(x) == FALSE

\* x is None
XMissing(x) == x = NoneV

\* np.atleast_3d on a shape
atleast_3d(s) ==
    CASE Len(s) = 0 -> <<1, 1, 1>>
      [] Len(s) = 1 -> <<1, s[1], 1>>
      [] Len(s) = 2 -> <<s[1], s[2], 1>>
      [] OTHER -> s

\* x_data[:, :, :, np.newaxis] on a shape of rank 3 or more
newaxis4(s) == SubSeq(s, 1, 3) \o <<1>> \o SubSeq(s, 4, Len(s))

\* the replacement fields of 'Completed {} of {} output, {.04} seconds elapsed':
\* "{.04}" names attribute 04 of its argument
ProgressFields == << [attr |-> ""], [attr |-> ""], [attr |-> "04"] >>

\* str.format on int, int and float arguments, none of which has an
\* attribute: a field naming one raises AttributeError
FormatOutcome(fields) ==
    IF \E i \in 1..Len(fields) : fields[i].attr # "" THEN "AttributeError" ELSE "ok"

ExpectationBranchWide(len) ==
    IF len = 3 THEN "3" ELSE IF len >= 4 THEN "4" ELSE "else"

\* the if / elif / else on len(input_shape_expectation)
ExpectationBranch(len) ==
    IF len = 3 THEN "3" ELSE IF len = 4 THEN "4" ELSE "else"

\* the inner loop: one session run and one write of cell (j, i) per example
RECURSIVE RunExamples(_, _, _, _)
RunExamples(j, i, n, acc) ==
    IF i >= n THEN acc
    ELSE RunExamples(j, i + 1, n,
             [acc EXCEPT !.events = Append(@, "session.run"),
                         !.runs = @ + 1,
                         !.written = Append(@, <<j, i>>)])

\* the loop over the output units j = 0 .. L-1.  n is the number of examples
\* the inner loop ranges over, or -1 when reading it raises IndexError
\* (x.shape[0] of a 0-d x)
RECURSIVE JacLoop(_, _, _, _)
JacLoop(j, L, n, acc) ==
    IF j >= L THEN acc
    ELSE IF FormatOutcome(ProgressFields) # "ok"
    THEN [acc EXCEPT !.outcome = FormatOutcome(ProgressFields)]
    ELSE IF keras_model = NoneV
    THEN [acc EXCEPT !.events = Append(@, "print"), !.outcome = "AttributeError"]
    ELSE IF n < 0
    THEN [acc EXCEPT !.events = @ \o <<"print", "tf.gradients">>,
                     !.grads = @ + 1, !.outcome = "IndexError"]
    ELSE JacLoop(j + 1, L, n,
             RunExamples(j, 0, n,
                 [acc EXCEPT !.events = @ \o <<"print", "tf.gradients">>,
                             !.grads = @ + 1]))

\* what a call of jacobian does: outcome, external calls in order, gradient
\* requests, session runs, the cells written and the shape returned
Jacobian(x, mean_output) ==
    LET r0 == [outcome |-> "returned", events |-> <<>>, grads |-> 0, runs |-> 0,
               written |-> <<>>, result |-> <<>>, examples |-> 0,
               branch |-> "none"]
    IN  IF XMissing(x) THEN [r0 EXCEPT !.outcome = "ValueError"]
        ELSE IF input_mean_norm = "None" \/ input_std_norm = "None"
        THEN \* x_data -= None, x_data /= None
             [r0 EXCEPT !.outcome = "TypeError", !.events = <<"normalize">>]
        ELSE
        LET x_data == atleast_3d(x.v)
            \* None.get_layer raises AttributeError: keras_model is tried
            src == IF keras_model_predict # NoneV THEN keras_model_predict
                   ELSE keras_model
            r1 == [r0 EXCEPT !.events = <<"normalize", "get_layer">>]
        IN  IF src = NoneV THEN [r1 EXCEPT !.outcome = "AttributeError"]
            ELSE
            LET branch == ExpectationBranch(src.v[1])
                x4 == newaxis4(x_data)
                L == labels_shape.v[1]
                n == IF branch = "3" THEN x_data[1]
                     ELSE IF Len(x.v) = 0 THEN -1 ELSE x.v[1]
                full == IF branch = "3" THEN <<L, x_data[2], x_data[1]>>
                        ELSE <<L, x4[1], x4[3], x4[2], x4[4]>>
                meaned == IF branch = "3" THEN <<L, x_data[2]>>
                          ELSE <<L, x4[3], x4[2], x4[4]>>
            IN  IF branch = "else"
                THEN [r1 EXCEPT !.outcome = "ValueError", !.branch = "else"]
                ELSE IF labels_shape.kind # "int"
                THEN \* np.ones with None or a tuple as a dimension
                     [r1 EXCEPT !.outcome = "TypeError", !.branch = branch]
                ELSE LET r2 == JacLoop(0, L, n, [r1 EXCEPT !.examples = n,
                                                           !.branch = branch])
                     IN  IF r2.outcome # "returned" THEN r2
                         ELSE [r2 EXCEPT !.result = IF mean_output THEN meaned
                                                    ELSE full]

jacobian(x, mean_output) ==
    /\ last' = [op |-> "jacobian", x |-> x, mean_output |-> mean_output,
                r |-> Jacobian(x, mean_output)]
    /\ UNCHANGED preVars
    /\ UNCHANGED saveVars
    /\ UNCHANGED jacVars

----------------------------------------------------------------------------
(* Specifications *)

BaseDirs == { HomeDir, WorkDir }

\* the object after __init__, in a process started in HomeDir
InitObject ==
    /\ val_size = NoneV
    /\ val_num = NoneV
    /\ num_train = NoneV
    /\ input_shape = NoneV
    /\ labels_shape = NoneV
    /\ folder_name = NoneP
    /\ fullfilepath = NoneP
    /\ virtual_cvslogger = "None"
    /\ input_mean_norm = "None"
    /\ input_std_norm = "None"
    /\ keras_model = NoneV
    /\ keras_model_predict = NoneV
    /\ cwd = HomeDir
    /\ files = {}
    /\ last = [op |-> "init"]
    /\ runnum_calls = 0
    /\ last_name = NoneP
    /\ auto_name = NoneP
    /\ first = [n \in Names |->
                   [seen |-> FALSE, folder_name |-> NoneP, fullfilepath |-> NoneP]]

InitPre ==
    /\ InitObject
    /\ dirs = BaseDirs

NextPre ==
    \/ \E v \in ValSizes : SetValSize(v)
    \/ \E input_data \in Arrays :
           \E labels \in LabelsFor(input_data) :
               pre_training_checklist_master(input_data, labels)

SpecPre == InitPre /\ [][NextPre]_vars

\* the working directory may hold a run folder of an earlier run
InitSave ==
    /\ InitObject
    /\ dirs \in { BaseDirs, BaseDirs \cup { HomeDir \o << <<RunNames[1]>> >> } }

NextSave ==
    \/ \E d \in BaseDirs : Chdir(d)
    \/ \E v \in { "None", "logger" } : SetVirtualCvsLogger(v)
    \/ \E render \in RenderOutcomes : plot_model(render)
    \/ \E name \in Names \cup { NoneP }, model_plot \in BOOLEAN,
          render \in RenderOutcomes : save(name, model_plot, render)

SpecSave == InitSave /\ [][NextSave]_vars

\* the values pre_training_checklist_master leaves in labels_shape
LabelsShapeValues == { NoneV } \cup { InferLabelsShape(l, NoneV) : l \in Arrays }

\* the object as a subclass has set it up before jacobian is called: the
\* normalisation statistics, the keras models and labels_shape (0 for labels
\* of shape (N, 0))
InitJac ==
    /\ val_size = NoneV
    /\ val_num = NoneV
    /\ num_train = NoneV
    /\ input_shape = NoneV
    /\ labels_shape \in LabelsShapeValues \cup { IntV(0) }
    /\ folder_name = NoneP
    /\ fullfilepath = NoneP
    /\ virtual_cvslogger = "None"
    /\ input_mean_norm \in { "None", "array" }
    /\ input_std_norm \in { "None", "array" }
    /\ keras_model \in { NoneV } \cup { ModelV(n) : n \in ExpectationLengths }
    /\ keras_model_predict \in { NoneV } \cup { ModelV(n) : n \in ExpectationLengths }
    /\ cwd = HomeDir
    /\ dirs = BaseDirs
    /\ files = {}
    /\ last = [op |-> "init"]
    /\ runnum_calls = 0
    /\ last_name = NoneP
    /\ auto_name = NoneP
    /\ first = [n \in Names |->
                   [seen |-> FALSE, folder_name |-> NoneP, fullfilepath |-> NoneP]]

NextJac ==
    \E x \in XValues, mean_output \in BOOLEAN : jacobian(x, mean_output)

SpecJac == InitJac /\ [][NextJac]_vars

----------------------------------------------------------------------------
(* Properties *)

Count(ev, e) == Cardinality({ i \in DOMAIN ev : ev[i] = e })
Pos(ev, e) == CHOOSE i \in DOMAIN ev : ev[i] = e
Before(ev, a, b) ==
    /\ Count(ev, a) = 1
    /\ Count(ev, b) = 1
    /\ Pos(ev, a) < Pos(ev, b)

PreReturned == last.op = "pre_training" /\ last.outcome = "returned"

\* C1: after pre_training_checklist_master returns, val_size is no longer
\* None, val_num is int(N * val_size) for the N samples of input_data, and
\* val_num + num_train = N.
C1_SplitSumsToTotal ==
    PreReturned =>
        /\ val_size # NoneV
        /\ val_num = IntV(ValNum(last.input_data[1], val_size))
        /\ num_train.kind = "int"
        /\ val_num.v[1] + num_train.v[1] = last.input_data[1]

\* a call whose split truncates: 2 samples, val_size 0.1
C1_Witness ==
    /\ PreReturned
    /\ last.input_data[1] = 2
    /\ val_size = FloatV(1)
    /\ val_num = IntV(0)
    /\ num_train = IntV(2)

\* C3: after pre_training_checklist_master returns, input_shape is the
\* per-sample shape of input_data (dimensions 1.. with a channel dimension 1
\* appended for ndim 2 and 3, as they are for ndim 4) and labels_shape is 1
\* for 1-D labels, labels.shape[1] for 2-D labels and the tuple of dimensions
\* 1.. for 3-D and 4-D labels.
C3_ShapesMatchRank ==
    PreReturned =>
        LET a == last.input_data
            l == last.labels
        IN  /\ ndim(a) \in {2, 3} =>
                   input_shape = TupleV(SubSeq(a, 2, ndim(a)) \o <<1>>)
            /\ ndim(a) = 4 => input_shape = TupleV(SubSeq(a, 2, 4))
            /\ ndim(l) = 1 => labels_shape = IntV(1)
            /\ ndim(l) = 2 => labels_shape = IntV(l[2])
            /\ ndim(l) \in {3, 4} => labels_shape = TupleV(SubSeq(l, 2, ndim(l)))

C3_Witness ==
    /\ PreReturned
    /\ ndim(last.input_data) = 3
    /\ ndim(last.labels) = 4
    /\ input_shape = TupleV(<<2, 3, 1>>)
    /\ labels_shape = TupleV(<<2, 3, 4>>)

\* what C10 says of a step that is a call of pre_training_checklist_master:
\* the fields of an unhandled rank keep their values and the split is
\* recomputed
PreFrame ==
    LET a == last'.input_data
        l == last'.labels
    IN  /\ last'.outcome = "returned"
        /\ ndim(a) \notin {2, 3, 4} => input_shape' = input_shape
        /\ ndim(l) \notin {1, 2, 3, 4} => labels_shape' = labels_shape
        /\ val_num' = IntV(ValNum(a[1], val_size'))
        /\ num_train' = IntV(a[1] - val_num'.v[1])

PreUnhandled ==
    /\ last'.op = "pre_training"
    /\ \/ ndim(last'.input_data) \notin {2, 3, 4}
       \/ ndim(last'.labels) \notin {1, 2, 3, 4}

\* C10 as stated: a call with input_data.ndim not in {2, 3, 4} or labels.ndim
\* not in {1, 2, 3, 4} raises no error, leaves input_shape (labels_shape)
\* unchanged and recomputes val_num and num_train.
C10_Original == [][PreUnhandled => PreFrame]_vars

\* C10 amended: the same for an input_data of at least one dimension
\* (ndim 1 or ndim 5 and more); a 0-d input_data raises IndexError.
C10_UnhandledRankKeepsShape ==
    [][PreUnhandled /\ ndim(last'.input_data) >= 1 => PreFrame]_vars

\* a 5-D input and 0-d labels after an earlier call that set both fields
C10_Witness ==
    /\ PreReturned
    /\ ndim(last.input_data) = 5
    /\ ndim(last.labels) = 0
    /\ input_shape = TupleV(<<2, 1>>)
    /\ labels_shape = IntV(2)
    /\ val_num = IntV(1)

SaveReturned == last.op = "save" /\ last.outcome = "returned"

\* C2: a save(name=n) after an earlier save(name=n) creates no directory,
\* raises no error, and leaves folder_name and fullfilepath as they were
\* after the first such call.
C2_SaveSameNameIdempotent ==
    (last.op = "save" /\ last.name # NoneP /\ last.repeat) =>
        /\ last.created = {}
        /\ last.outcome = "returned"
        /\ ~(\E i \in DOMAIN last.events : last.events[i] = "makedirs")
        /\ folder_name = first[last.name].folder_name
        /\ fullfilepath = first[last.name].fullfilepath

C2_Witness ==
    /\ SaveReturned
    /\ last.name = Str(FALSE, << <<"runA">> >>)
    /\ last.repeat
    /\ HomeDir \o << <<"runA">> >> \in dirs
    /\ folder_name = last.name

\* C4: a save that returns has set fullfilepath to currentdir joined with
\* folder_name + '/', has written hyperparameter.txt inside that folder,
\* which existed when the file was opened, and wrote it before
\* post_training_checklist_child and savefile were called.
C4_HyperparameterFileInRunFolder ==
    SaveReturned =>
        LET folder == Resolve(Join(currentdir, folder_name))
        IN  /\ fullfilepath.kind = "str"
            /\ fullfilepath.parts = Join(currentdir, folder_name).parts \o << <<>> >>
            /\ Resolve(fullfilepath) = folder
            /\ folder \in dirs
            /\ last.dir_at_open
            /\ folder \o << <<"hyperparameter.txt">> >> \in files
            /\ Before(last.events, "write", "post_training_checklist_child")
            /\ Count(last.events, "savefile") > 0 =>
                   Before(last.events, "write", "savefile")

\* a save without a name after a named one, with a logger attached
C4_Witness ==
    /\ SaveReturned
    /\ last.name = NoneP
    /\ last.pre_folder_name = Str(FALSE, << <<"runA">> >>)
    /\ Count(last.events, "savefile") = 1
    /\ Resolve(fullfilepath) \o << <<"hyperparameter.txt">> >> \in files

\* C7: when the rendering raises, plot_model only warns; save(model_plot=True)
\* still returns, having called post_training_checklist_child once and then,
\* when virtual_cvslogger is set, savefile with the current folder_name.
C7_RenderFailureSwallowed ==
    /\ (last.op = "plot_model" /\ last.render # "ok") =>
           /\ last.outcome = "returned"
           /\ last.events = <<"plot_model", "warn">>
    /\ (last.op = "save" /\ last.model_plot /\ last.render \notin {"ok", "none"}) =>
           /\ last.outcome = "returned"
           /\ Before(last.events, "plot_model", "warn")
           /\ Before(last.events, "warn", "post_training_checklist_child")
           /\ virtual_cvslogger = "None" => Count(last.events, "savefile") = 0
           /\ virtual_cvslogger # "None" =>
                  /\ Before(last.events, "post_training_checklist_child", "savefile")
                  /\ last.savefile_arg = folder_name

C7_Witness ==
    /\ SaveReturned
    /\ last.model_plot
    /\ last.render = "OSError"
    /\ virtual_cvslogger = "logger"
    /\ Count(last.events, "savefile") = 1
    /\ Count(last.events, "warn") = 1

\* C9: folder_runnum is called at most once, and only by a save without a
\* name while folder_name is None; after every save folder_name is the most
\* recent name given, or the generated name when none was ever given.
C9_AutoFolderOnce ==
    /\ runnum_calls <= 1
    /\ last.op = "save" =>
           /\ last.ran_runnum => (last.name = NoneP /\ last.pre_folder_name = NoneP)
           /\ folder_name # NoneP
           /\ folder_name = IF last_name # NoneP THEN last_name ELSE auto_name

\* a save without a name after a generated folder and a later named save
C9_Witness ==
    /\ last.op = "save"
    /\ last.name = NoneP
    /\ ~last.ran_runnum
    /\ runnum_calls = 1
    /\ last_name # NoneP
    /\ folder_name = last_name

JacCall == last.op = "jacobian"

\* C5: jacobian with x None raises ValueError before anything else: no
\* normalisation, no layer lookup, no gradient request, no session run, and
\* no field changes.
C5_MissingXRaises ==
    [][(last'.op = "jacobian" /\ last'.x = NoneV) =>
           /\ last'.r.outcome = "ValueError"
           /\ last'.r.events = <<>>
           /\ last'.r.grads = 0
           /\ last'.r.runs = 0
           /\ UNCHANGED <<preVars, saveVars, jacVars>>]_vars

\* x None on an object that is otherwise ready
C5_Witness ==
    /\ JacCall
    /\ last.x = NoneV
    /\ last.r.outcome = "ValueError"
    /\ input_mean_norm = "array"
    /\ input_std_norm = "array"
    /\ keras_model = ModelV(3)
    /\ labels_shape = IntV(2)

\* the call got past the normalisation and found the layer "input"
JacReady ==
    /\ JacCall
    /\ last.x # NoneV
    /\ input_mean_norm = "array"
    /\ input_std_norm = "array"
    /\ (keras_model_predict # NoneV \/ keras_model # NoneV)

JacExpectation ==
    IF keras_model_predict # NoneV THEN keras_model_predict.v[1] ELSE keras_model.v[1]

\* C6 as stated: on an object that is fully set up, an x that is neither 3-D
\* nor 4-D ends in the ValueError of the final else, whatever the model
\* expects, with no gradient requested and no session run.
C6_Original ==
    (/\ JacReady
     /\ keras_model # NoneV
     /\ labels_shape.kind = "int"
     /\ ndim(last.x.v) \notin {3, 4}) =>
        /\ last.r.branch = "else"
        /\ last.r.outcome = "ValueError"
        /\ last.r.grads = 0
        /\ last.r.runs = 0

\* C6 amended: the ValueError is raised exactly when the input layer's
\* expected shape has a length other than 3 and 4, whatever the rank of x,
\* and then no gradient is requested and no session is run.
C6_UnsupportedExpectationRaises ==
    JacReady =>
        /\ last.r.outcome = "ValueError" <=> JacExpectation \notin {3, 4}
        /\ JacExpectation \notin {3, 4} =>
               /\ last.r.branch = "else"
               /\ last.r.grads = 0
               /\ last.r.runs = 0
               /\ Count(last.r.events, "tf.gradients") = 0
               /\ Count(last.r.events, "session.run") = 0

\* a 3-D x on a model that expects a shape of length 5
C6_Witness ==
    /\ JacReady
    /\ ndim(last.x.v) = 3
    /\ JacExpectation = 5
    /\ last.r.outcome = "ValueError"
    /\ labels_shape = IntV(2)

\* C8: for a valid x and a model that expects a 3-D or 4-D shape, jacobian
\* returns, having requested one gradient per output unit, run the session
\* once per output unit and example, and written every cell (j, i) exactly
\* once; with mean_output the example axis is averaged away.
C8_JacobianCompletes ==
    (/\ JacReady
     /\ ndim(last.x.v) >= 1
     /\ keras_model # NoneV
     /\ JacExpectation \in {3, 4}
     /\ labels_shape.kind = "int") =>
        LET L == labels_shape.v[1]
            n == last.r.examples
            r == last.r
        IN  /\ r.outcome = "returned"
            /\ r.grads = L
            /\ r.runs = L * n
            /\ Len(r.written) = L * n
            /\ \A j \in 0..(L - 1), i \in 0..(n - 1) : Count(r.written, <<j, i>>) = 1
            /\ Len(r.result) = IF JacExpectation = 3
                               THEN (IF last.mean_output THEN 2 ELSE 3)
                               ELSE (IF last.mean_output THEN 4 ELSE 5)

====
